---------------------------- MODULE Spec2Model ----------------------------
(***************************************************************************)
(* Document processing pipeline: the queue-driven state machine of         *)
(* DocumentsProcessingController (handleProcessing, handleValidation) over *)
(* the record store and event client of DocumentsService.                  *)
(*                                                                         *)
(* Nullable columns are modelled as options: <<>> is null, <<v>> is v.     *)
(* ocr_confidence is kept in hundredths (0.98 is 98).                      *)
(***************************************************************************)
EXTENDS Integers, Sequences, FiniteSets, TLC

(* ------------------------------ bounds --------------------------------- *)
\* events from outside the happy path in a run: an infrastructure error (a
\* store call or a publish failing), a rejected upload, a processing event
\* published by an operator, a remove(id), a consumer channel dying, an
\* extraction call rejecting
MaxEvents == 1

\* the document ids uploadFile hands out, in this order, never reused
Docs == {1}
\* two consumer connections (app instances), each with prefetchCount 1
Workers == {"w1", "w2"}

(* ------------------------------ enums ---------------------------------- *)
UPLOADED == "uploaded"
PROCESSING == "processing"
VALIDATED == "validated"
FAILED == "failed"
DocumentStatus == {UPLOADED, PROCESSING, VALIDATED, FAILED}

DOCUMENT_PROCESSING == "document_processing"
DOCUMENT_VALIDATION == "document_validation"
DocumentEventType == {DOCUMENT_PROCESSING, DOCUMENT_VALIDATION}

Null == <<>>
Some(v) == <<v>>

(* ------------------------------ entity --------------------------------- *)
\* a freshly uploaded row: status UPLOADED, every nullable column null
NewDocument ==
  [status |-> UPLOADED, ocr_text |-> Null, ocr_confidence |-> Null,
   ocr_language |-> Null, validation_errors |-> Null]

\* the value of a handler-local variable that holds no row
NoDocument ==
  [status |-> "", ocr_text |-> Null, ocr_confidence |-> Null,
   ocr_language |-> Null, validation_errors |-> Null]

\* no update dto in hand
NoDto == [none |-> TRUE]

\* Object.assign(document, updateDocumentDto): the dto's fields overwrite
ObjectAssign(document, dto) ==
  [f \in DOMAIN document |-> IF f \in DOMAIN dto THEN dto[f] ELSE document[f]]

(* --------------------------- extraction -------------------------------- *)
\* the stubbed extractor's constant result
simulateOCR ==
  [text |-> "This is a simulated OCR result.", confidence |-> 98, language |-> "en"]

(* ---------------------------- validator -------------------------------- *)
\* zod's message for a null given to z.string() / z.number()
ExpectedString == "Expected string, received null"
ExpectedNumber == "Expected number, received null"

\* mutant of Issues: a range check on confidence that shuts out 1.0
IssuesOpenRange(text, confidence, language) ==
  (IF text = Null THEN <<[path |-> "text", message |-> ExpectedString]>> ELSE <<>>)
  \o (IF confidence = Null
        THEN <<[path |-> "confidence", message |-> ExpectedNumber]>>
        ELSE IF confidence[1] < 0 \/ confidence[1] >= 100
          THEN <<[path |-> "confidence", message |-> "Number out of range"]>>
          ELSE <<>>)
  \o (IF language = Null
        THEN <<[path |-> "language", message |-> ExpectedString]>> ELSE <<>>)

\* OCRResultSchema.safeParse(...).error.issues, in the order of the shape
Issues(text, confidence, language) ==
  (IF text = Null THEN <<[path |-> "text", message |-> ExpectedString]>> ELSE <<>>)
  \o (IF confidence = Null
        THEN <<[path |-> "confidence", message |-> ExpectedNumber]>> ELSE <<>>)
  \o (IF language = Null
        THEN <<[path |-> "language", message |-> ExpectedString]>> ELSE <<>>)

\* mutant of Messages: the issues' paths are stored instead of their messages
MessagesAsPaths(issues) == [i \in 1 .. Len(issues) |-> issues[i].path]

\* issues.map((el) => el.message)
Messages(issues) == [i \in 1 .. Len(issues) |-> issues[i].message]

\* Array.prototype.join(',')
RECURSIVE Join(_)
Join(msgs) ==
  IF Len(msgs) = 0 THEN ""
  ELSE IF Len(msgs) = 1 THEN msgs[1]
  ELSE msgs[1] \o "," \o Join(Tail(msgs))

\* mutant of ValidationDto: a failure adds its messages to the errors the row
\* already holds
ValidationDtoAppendErrors(document) ==
  LET issues == Issues(document.ocr_text, document.ocr_confidence,
                       document.ocr_language)
  IN IF Len(issues) > 0
       THEN [status |-> FAILED,
             validation_errors |->
               IF document.validation_errors = Null
                 THEN Some(Join(Messages(issues)))
                 ELSE Some(document.validation_errors[1] \o ","
                           \o Join(Messages(issues)))]
       ELSE [status |-> VALIDATED, validation_errors |-> Null]

\* mutant of ValidationDto: a pass does not clear validation_errors
ValidationDtoKeepErrors(document) ==
  LET issues == Issues(document.ocr_text, document.ocr_confidence,
                       document.ocr_language)
  IN IF Len(issues) > 0
       THEN [status |-> FAILED, validation_errors |-> Some(Join(Messages(issues)))]
       ELSE [status |-> VALIDATED]

\* the dto handleValidation writes for the document it looked up
ValidationDto(document) ==
  LET issues == Issues(document.ocr_text, document.ocr_confidence,
                       document.ocr_language)
  IN IF Len(issues) > 0
       THEN [status |-> FAILED, validation_errors |-> Some(Join(Messages(issues)))]
       ELSE [status |-> VALIDATED, validation_errors |-> Null]

\* mutant of ProcessingDto: the first update already writes the final status
ProcessingDtoSkipped == [status |-> VALIDATED]

\* the first dto of handleProcessing
ProcessingDto == [status |-> PROCESSING]

\* mutant of OcrDto: the status is left out of the second update
OcrDtoNoStatus(ocrResult) ==
  [ocr_text |-> Some(ocrResult.text), ocr_confidence |-> Some(ocrResult.confidence),
   ocr_language |-> Some(ocrResult.language)]

\* mutant of OcrDto: the detected language is left out of the second update
OcrDtoNoLanguage(ocrResult) ==
  [ocr_text |-> Some(ocrResult.text), ocr_confidence |-> Some(ocrResult.confidence),
   status |-> VALIDATED]

\* the second dto of handleProcessing
OcrDto(ocrResult) ==
  [ocr_text |-> Some(ocrResult.text), ocr_confidence |-> Some(ocrResult.confidence),
   ocr_language |-> Some(ocrResult.language), status |-> VALIDATED]

(* ------------------------------ config --------------------------------- *)
MAX_FILE_SIZE == 10 * 1024 * 1024
ALLOWED_MIME_TYPES ==
  {"application/pdf", "image/jpeg", "image/png", "image/tiff", "image/bmp",
   "text/plain"}

\* the files a client may send: none, or a mime type and a size
Files ==
  {Null} \cup {Some(f) : f \in [mimetype : {"application/pdf", "image/gif"},
                                 size : {1024, MAX_FILE_SIZE + 1}]}

(* ------------------------- validator inputs ---------------------------- *)
\* values of the three nullable columns the validator may be handed
Texts == {Null, Some(""), Some("a"), Some("Invoice #123")}
Confidences == {Null, Some(-1), Some(0), Some(50), Some(98), Some(100), Some(101)}
Languages == {Null, Some(""), Some("en"), Some("fr")}

\* values of type OCRResult an extractor may resolve with: a string, a number
\* (in hundredths), a string
ExtractionResults ==
  [text : {"", "Invoice #123"}, confidence : {-1, 98, 101}, language : {"", "en"}]

(* ------------------------------- state --------------------------------- *)
VARIABLES
  store,      \* the document table: id -> row, for the ids that have a row
  queue,      \* document_queue: message -> copies ready for delivery
  pending,    \* events handed to rabbitClient.emit whose publish has not finished
  h,          \* per consumer: the handler invocation it runs (or ran last)
  upload,     \* rows uploadFile created so far, its calls so far, and the file and
              \* the result of its last call
  events,     \* events from outside the happy path so far
  processed,  \* id -> the row as the last complete, undisturbed handleProcessing left it
  history,    \* id -> what has happened to its row: the statuses it has held, extraction
              \* results saved, a fresh event published from outside, the row removed,
              \* the calls of remove(id) so far and what the last one threw, an
              \* emitted event of the id lost before it reached the broker, the
              \* event patterns of the id acknowledged to the broker
  parsed,     \* the run of OCRResultSchema.safeParse under study (validator alone)
  extractor   \* the OCRResult the extraction call resolves with

vars == <<store, queue, pending, h, upload, events, processed, history, parsed, extractor>>

Msgs == [pattern : DocumentEventType, documentId : Docs]
Msg(p, d) == [pattern |-> p, documentId |-> d]

\* who called emit: a consumer's running handler, or anything else
Publishers == Workers \cup {"client"}
PubKeys == [pattern : DocumentEventType, documentId : Docs, by : Publishers]
PubKey(p, d, by) == [pattern |-> p, documentId |-> d, by |-> by]

\* a consumer that has handled nothing yet
IdleHandler ==
  [pc |-> "idle", pattern |-> "", documentId |-> 0,
   document |-> NoDocument, entity |-> NoDocument, dto |-> NoDto,
   ocrResult |-> Null,
   \* history of the invocation, read by the properties only
   before |-> Null, again |-> FALSE, dirty |-> FALSE, lookup |-> "none",
   error |-> "none", errorAt |-> "none",
   writes |-> <<>>, ocrCalls |-> 0, emitted |-> 0,
   outcome |-> "none", requeue |-> FALSE, decisions |-> 0,
   \* the broker took the unsettled message back (the consumer's channel died)
   lost |-> FALSE]

\* a handler invocation entered with message m, the row being `row` (an option)
\* and `last` the row the last complete handleProcessing of the id left
StartHandler(m, row, last) ==
  [IdleHandler EXCEPT !.pc = "lookup", !.pattern = m.pattern,
                      !.documentId = m.documentId, !.before = row,
                      !.again = (row # Null /\ row = last)]

Row(st, id) == IF id \in DOMAIN st THEN Some(st[id]) ELSE Null

\* the row a finished invocation leaves behind, known only when no other
\* party wrote the record while the invocation ran
Left(st, hw) == IF hw.dirty THEN Null ELSE Row(st, hw.documentId)

\* the history of row id after `entity` was saved for it by an update with `dto`
Saved(hist, id, entity, dto) ==
  [hist EXCEPT ![id].statuses = @ \cup {entity.status},
               ![id].ocr = @ \/ "ocr_text" \in DOMAIN dto]

\* the history of the rows after the handler hw acknowledged its message: the
\* broker takes the acknowledgment unless the channel it was delivered on died
Acked(hist, hw) ==
  IF hw.lost THEN hist
  ELSE [hist EXCEPT ![hw.documentId].acked = @ \cup {hw.pattern}]

\* no run of the validator under study
NoParse ==
  [text |-> Null, confidence |-> Null, language |-> Null,
   done |-> FALSE, success |-> FALSE, issues |-> <<>>]

\* the pipeline after bootstrap: no rows, no messages, idle consumers
IdlePipeline ==
  /\ store = [d \in {} |-> NewDocument]
  /\ queue = [m \in Msgs |-> 0]
  /\ pending = [k \in PubKeys |-> 0]
  /\ h = [w \in Workers |-> IdleHandler]
  /\ upload = [created |-> 0, result |-> "none", calls |-> 0, file |-> Null]
  /\ events = 0
  /\ processed = [d \in Docs |-> Null]
  /\ history = [d \in Docs |-> [statuses |-> {}, ocr |-> FALSE, fresh |-> FALSE,
                                 removed |-> FALSE,
                                 removeCalls |-> 0, removeThrew |-> "none",
                                 unpublished |-> FALSE, acked |-> {}]]

Init ==
  /\ IdlePipeline
  /\ parsed = NoParse
  /\ extractor = simulateOCR

\* the pipeline after bootstrap with an extractor in place of the stub: one
\* that resolves with some other value of type OCRResult
ExtractionInit ==
  /\ IdlePipeline
  /\ parsed = NoParse
  /\ extractor \in ExtractionResults

\* the validator alone: any input in hand, not yet parsed
ValidatorInit ==
  /\ IdlePipeline
  /\ parsed \in {[NoParse EXCEPT !.text = t, !.confidence = c, !.language = l] :
                   t \in Texts, c \in Confidences, l \in Languages}
  /\ extractor = simulateOCR

(* --------------------------- store and queue --------------------------- *)
\* DocumentsService.findOne: the row, or NotFoundException
findOne(st, id) ==
  IF id \in DOMAIN st
    THEN [threw |-> "none", value |-> Some(st[id])]
    ELSE [threw |-> "NotFoundException", value |-> Null]

\* repository.save(entity): the row becomes the entity (inserted when missing)
Save(st, id, entity) ==
  [x \in DOMAIN st \cup {id} |-> IF x = id THEN entity ELSE st[x]]

\* repository.remove(entity)
Delete(st, id) == [x \in DOMAIN st \ {id} |-> st[x]]

Enqueue(q, m) == [q EXCEPT ![m] = @ + 1]
Dequeue(q, m) == [q EXCEPT ![m] = @ - 1]

\* another party wrote or removed row d: every other invocation on d notes it
Disturb(hh, actor, d) ==
  [w \in Workers |->
     IF w # actor /\ hh[w].documentId = d
       THEN [hh[w] EXCEPT !.dirty = TRUE] ELSE hh[w]]

\* one more event from outside the happy path may happen
CanHappen == events < MaxEvents

(* ------------------------------ upload --------------------------------- *)
\* mutant of UploadRejection: the size check is missing
UploadRejectionNoSize(file) ==
  IF file = Null THEN "No file uploaded"
  ELSE IF file[1].mimetype \notin ALLOWED_MIME_TYPES THEN "File type is not supported"
  ELSE "none"

\* uploadFile's three input checks: which BadRequestException, if any
UploadRejection(file) ==
  IF file = Null THEN "No file uploaded"
  ELSE IF file[1].mimetype \notin ALLOWED_MIME_TYPES THEN "File type is not supported"
  ELSE IF file[1].size > MAX_FILE_SIZE THEN "File size exceeds limit"
  ELSE "none"

\* mutant of UploadFile: the event is emitted before the row is saved, so a
\* save that fails leaves an event for a row that does not exist
UploadFileEmitFirst(file) ==
  /\ upload.created + 1 \in Docs
  /\ LET id == upload.created + 1 IN
     \/ /\ UploadRejection(file) # "none"
        /\ CanHappen
        /\ events' = events + 1
        /\ upload' = [upload EXCEPT !.result = "bad_request", !.calls = @ + 1,
                                   !.file = file]
        /\ UNCHANGED <<store, pending, history>>
     \/ /\ UploadRejection(file) = "none"
        /\ CanHappen
        /\ events' = events + 1
        /\ pending' = Enqueue(pending, PubKey(DOCUMENT_PROCESSING, id, "client"))
        /\ upload' = [upload EXCEPT !.result = "bad_request", !.calls = @ + 1,
                                   !.file = file]
        /\ UNCHANGED <<store, history>>
     \/ /\ UploadRejection(file) = "none"
        /\ store' = Save(store, id, NewDocument)
        /\ pending' = Enqueue(pending, PubKey(DOCUMENT_PROCESSING, id, "client"))
        /\ upload' = [created |-> id, result |-> "created",
                   calls |-> upload.calls + 1, file |-> file]
        /\ history' = Saved(history, id, NewDocument, NoDto)
        /\ UNCHANGED events
  /\ UNCHANGED <<queue, h, processed, parsed, extractor>>

\* mutant of UploadFile: the row is saved, the emit throws, and the call
\* reports the failure with the row left behind
UploadFileSavedThenFailed(file) ==
  /\ upload.created + 1 \in Docs
  /\ LET id == upload.created + 1 IN
     \/ /\ UploadRejection(file) # "none"
        /\ CanHappen
        /\ events' = events + 1
        /\ upload' = [upload EXCEPT !.result = "bad_request", !.calls = @ + 1,
                                   !.file = file]
        /\ UNCHANGED <<store, pending, history>>
     \/ /\ UploadRejection(file) = "none"
        /\ CanHappen
        /\ events' = events + 1
        /\ store' = Save(store, id, NewDocument)
        /\ upload' = [created |-> id, result |-> "bad_request",
                      calls |-> upload.calls + 1, file |-> file]
        /\ history' = Saved(history, id, NewDocument, NoDto)
        /\ UNCHANGED pending
     \/ /\ UploadRejection(file) = "none"
        /\ store' = Save(store, id, NewDocument)
        /\ pending' = Enqueue(pending, PubKey(DOCUMENT_PROCESSING, id, "client"))
        /\ upload' = [created |-> id, result |-> "created",
                   calls |-> upload.calls + 1, file |-> file]
        /\ history' = Saved(history, id, NewDocument, NoDto)
        /\ UNCHANGED events
  /\ UNCHANGED <<queue, h, processed, parsed, extractor>>

\* DocumentsService.uploadFile(file)
UploadFile(file) ==
  /\ upload.created + 1 \in Docs
  /\ LET id == upload.created + 1 IN
     \/ \* an input check throws BadRequestException
        /\ UploadRejection(file) # "none"
        /\ CanHappen
        /\ events' = events + 1
        /\ upload' = [upload EXCEPT !.result = "bad_request", !.calls = @ + 1,
                                   !.file = file]
        /\ UNCHANGED <<store, pending, history>>
     \/ \* repository.save rejects: caught, rethrown as BadRequestException
        /\ UploadRejection(file) = "none"
        /\ CanHappen
        /\ events' = events + 1
        /\ upload' = [upload EXCEPT !.result = "bad_request", !.calls = @ + 1,
                                   !.file = file]
        /\ UNCHANGED <<store, pending, history>>
     \/ \* the row is saved with status UPLOADED, then the event is emitted
        /\ UploadRejection(file) = "none"
        /\ store' = Save(store, id, NewDocument)
        /\ pending' = Enqueue(pending, PubKey(DOCUMENT_PROCESSING, id, "client"))
        /\ upload' = [created |-> id, result |-> "created",
                   calls |-> upload.calls + 1, file |-> file]
        /\ history' = Saved(history, id, NewDocument, NoDto)
        /\ UNCHANGED events
  /\ UNCHANGED <<queue, h, processed, parsed, extractor>>

(* ------------------------------ client --------------------------------- *)
\* the publish started by an emit reaches the broker
PublishComplete(k) ==
  /\ pending[k] > 0
  /\ pending' = Dequeue(pending, k)
  /\ queue' = Enqueue(queue, Msg(k.pattern, k.documentId))
  /\ UNCHANGED <<store, h, upload, events, processed, history, parsed, extractor>>

\* the publish started by an emit fails; nobody subscribed to the observable
PublishFail(k) ==
  /\ pending[k] > 0
  /\ CanHappen
  /\ events' = events + 1
  /\ pending' = Dequeue(pending, k)
  /\ history' = [history EXCEPT ![k.documentId].unpublished = TRUE]
  /\ UNCHANGED <<store, queue, h, upload, processed, parsed, extractor>>

(* ----------------------------- environment ----------------------------- *)
\* an operator publishes a fresh processing event for a document id
Republish(d) ==
  /\ CanHappen
  /\ d <= upload.created
  /\ events' = events + 1
  /\ queue' = Enqueue(queue, Msg(DOCUMENT_PROCESSING, d))
  /\ history' = [history EXCEPT ![d].fresh = TRUE]
  /\ UNCHANGED <<store, pending, h, upload, processed, parsed, extractor>>

\* mutant of Remove: removing an id that has no row returns quietly
RemoveIgnoreMissing(d) ==
  /\ CanHappen
  /\ events' = events + 1
  /\ IF findOne(store, d).threw = "none"
       THEN /\ store' = Delete(store, d)
            /\ h' = Disturb(h, "client", d)
            /\ history' = [history EXCEPT ![d].removed = TRUE,
                                          ![d].removeCalls = @ + 1,
                                          ![d].removeThrew = "none"]
       ELSE /\ history' = [history EXCEPT ![d].removeCalls = @ + 1,
                                          ![d].removeThrew = "none"]
            /\ UNCHANGED <<store, h>>
  /\ UNCHANGED <<queue, pending, upload, processed, parsed, extractor>>

\* DocumentsService.remove(id), called from outside the pipeline:
\* const document = await this.findOne(id); await repository.remove(document)
Remove(d) ==
  /\ CanHappen
  /\ events' = events + 1
  /\ LET r == findOne(store, d) IN
       IF r.threw = "none"
         THEN /\ store' = Delete(store, d)
              /\ h' = Disturb(h, "client", d)
              /\ history' = [history EXCEPT ![d].removed = TRUE,
                                            ![d].removeCalls = @ + 1,
                                            ![d].removeThrew = "none"]
         ELSE /\ history' = [history EXCEPT ![d].removeCalls = @ + 1,
                                            ![d].removeThrew = r.threw]
              /\ UNCHANGED <<store, h>>
  /\ UNCHANGED <<queue, pending, upload, processed, parsed, extractor>>

\* the channel of consumer w dies while its handler runs: the broker puts the
\* unacknowledged message back in the queue; the handler runs on, and what it
\* later tells the dead channel settles nothing
Redeliver(w) ==
  /\ CanHappen
  /\ h[w].pc \notin {"idle", "done"}
  /\ ~h[w].lost
  /\ events' = events + 1
  /\ queue' = Enqueue(queue, Msg(h[w].pattern, h[w].documentId))
  /\ h' = [h EXCEPT ![w].lost = TRUE]
  /\ UNCHANGED <<store, pending, upload, processed, history, parsed, extractor>>

(* ------------------------------ handlers ------------------------------- *)
\* mutant of Deliver: no prefetch limit, the broker hands a message to a
\* consumer whatever it is doing
DeliverNoPrefetch(w, m) ==
  /\ queue[m] > 0
  /\ queue' = Dequeue(queue, m)
  /\ h' = [h EXCEPT ![w] = StartHandler(m, Row(store, m.documentId),
                                        processed[m.documentId])]
  /\ pending' =
       [k \in PubKeys |->
          IF k.by = w THEN 0
          ELSE IF k.by = "client"
            THEN pending[k] + pending[PubKey(k.pattern, k.documentId, w)]
          ELSE pending[k]]
  /\ UNCHANGED <<store, upload, events, processed, history, parsed, extractor>>

\* the broker hands message m to consumer w, which holds no unsettled message
Deliver(w, m) ==
  /\ h[w].pc \in {"idle", "done"}
  /\ queue[m] > 0
  /\ queue' = Dequeue(queue, m)
  /\ h' = [h EXCEPT ![w] = StartHandler(m, Row(store, m.documentId),
                                        processed[m.documentId])]
  \* events the consumer's earlier invocation emitted stay in flight
  /\ pending' =
       [k \in PubKeys |->
          IF k.by = w THEN 0
          ELSE IF k.by = "client"
            THEN pending[k] + pending[PubKey(k.pattern, k.documentId, w)]
          ELSE pending[k]]
  /\ UNCHANGED <<store, upload, events, processed, history, parsed, extractor>>

\* mutant of NackRequeue: the rejected message is dropped
NackDiscard == FALSE

\* the requeue argument of channel.nack in both catch blocks
NackRequeue == TRUE

\* mutant of Catch: the catch block acknowledges the message
CatchAck(hw, err) ==
  [hw EXCEPT !.pc = "done", !.error = err, !.errorAt = hw.pc,
             !.outcome = "ack", !.decisions = @ + 1,
             !.entity = NoDocument, !.dto = NoDto]

\* mutant of Catch: the catch block logs the error and settles nothing
CatchSilent(hw, err) ==
  [hw EXCEPT !.pc = "done", !.error = err, !.errorAt = hw.pc,
             !.entity = NoDocument, !.dto = NoDto]

\* catch (error): channel.nack(originalMsg, false, true)
Catch(hw, err) ==
  [hw EXCEPT !.pc = "done", !.error = err, !.errorAt = hw.pc,
             !.outcome = "nack", !.requeue = NackRequeue, !.decisions = @ + 1,
             !.entity = NoDocument, !.dto = NoDto]

\* mutant of Settle: a rejected message is never put back in the queue
SettleDropped(q, hw) == q

\* the queue after the handler settled its message
Settle(q, hw) ==
  IF hw.outcome = "nack" /\ hw.requeue /\ ~hw.lost
    THEN Enqueue(q, Msg(hw.pattern, hw.documentId)) ELSE q

\* channel.ack(originalMsg)
Ack(hw) ==
  [hw EXCEPT !.pc = "done", !.outcome = "ack", !.decisions = @ + 1,
             !.entity = NoDocument, !.dto = NoDto]

\* mutant of FirstDto: handleProcessing writes the extraction results without
\* the PROCESSING update before them
FirstDtoNoProcessing(pattern, document) ==
  IF pattern = DOCUMENT_PROCESSING
    THEN OcrDto(simulateOCR) ELSE ValidationDto(document)

\* mutant of FirstDto: a processing event that finds the row already PROCESSING
\* notes the retry in validation_errors
FirstDtoRetryNoted(pattern, document) ==
  IF pattern = DOCUMENT_PROCESSING
    THEN IF document.status = PROCESSING
           THEN [status |-> PROCESSING, validation_errors |-> Some("retried")]
           ELSE ProcessingDto
    ELSE ValidationDto(document)

\* the dto of the update that follows the handler's lookup
FirstDto(pattern, document) ==
  IF pattern = DOCUMENT_PROCESSING THEN ProcessingDto ELSE ValidationDto(document)

\* mutant of AfterUpdate: the handler emits right after its first update
AfterUpdateNoExtraction(hw) == "finish"

\* where the handler goes when an update has returned
AfterUpdate(hw) ==
  IF hw.pattern = DOCUMENT_PROCESSING /\ hw.dto = ProcessingDto
    THEN "ocr" ELSE "finish"

\* a store call of consumer w throws: the catch block nacks
Throw(w, err) ==
  /\ h' = [h EXCEPT ![w] = Catch(h[w], err)]
  /\ queue' = Settle(queue, h'[w])

\* const document = await this.documentsService.findOne(documentId)
Lookup(w) ==
  /\ h[w].pc = "lookup"
  /\ LET r == findOne(store, h[w].documentId) IN
     \/ /\ CanHappen
        /\ events' = events + 1
        /\ Throw(w, "infrastructure")
     \/ /\ r.threw # "none"
        /\ h' = [h EXCEPT ![w] = [Catch(h[w], r.threw) EXCEPT !.lookup = "notfound"]]
        /\ queue' = Settle(queue, h'[w])
        /\ UNCHANGED events
     \/ /\ r.threw = "none"
        /\ IF r.value = Null
             THEN \* if (!document) { channel.ack(originalMsg); return; }
                  h' = [h EXCEPT ![w] = [Ack(h[w]) EXCEPT !.lookup = "notfound"]]
             ELSE h' = [h EXCEPT ![w].document = r.value[1],
                                 ![w].lookup = "found",
                                 ![w].dto = FirstDto(h[w].pattern, r.value[1]),
                                 ![w].pc = "update_find"]
        /\ UNCHANGED <<queue, events>>
  /\ UNCHANGED <<store, pending, upload, processed, history, parsed, extractor>>

\* update(): const document = await this.findOne(id); Object.assign(document, dto)
UpdateFind(w) ==
  /\ h[w].pc = "update_find"
  /\ LET r == findOne(store, h[w].documentId) IN
     \/ /\ CanHappen
        /\ events' = events + 1
        /\ Throw(w, "infrastructure")
     \/ /\ r.threw # "none"
        /\ Throw(w, r.threw)
        /\ UNCHANGED events
     \/ /\ r.threw = "none"
        /\ h' = [h EXCEPT ![w].entity = ObjectAssign(r.value[1], h[w].dto),
                          ![w].pc = "update_save"]
        /\ UNCHANGED <<queue, events>>
  /\ UNCHANGED <<store, pending, upload, processed, history, parsed, extractor>>

\* mutant of UpdateSave: the handler goes on without awaiting the write
UpdateNotAwaited(w) ==
  /\ h[w].pc = "update_save"
  /\ h' = [h EXCEPT ![w].entity = NoDocument, ![w].pc = AfterUpdate(h[w])]
  /\ UNCHANGED <<store, queue, pending, upload, events, processed, history, parsed, extractor>>

\* mutant of UpdateSave: a row about to be marked PROCESSING again is removed
\* instead (a clean-up before reprocessing)
UpdateSaveOrRemove(w) ==
  /\ h[w].pc = "update_save"
  /\ \/ /\ CanHappen
        /\ events' = events + 1
        /\ Throw(w, "infrastructure")
        /\ UNCHANGED <<store, history>>
     \/ /\ store' = IF h[w].dto = ProcessingDto /\ h[w].document.status # UPLOADED
                      THEN Delete(store, h[w].documentId)
                      ELSE Save(store, h[w].documentId, h[w].entity)
        /\ history' = Saved(history, h[w].documentId, h[w].entity, h[w].dto)
        /\ h' = [Disturb(h, w, h[w].documentId) EXCEPT
                   ![w].writes = Append(@, h[w].dto),
                   ![w].entity = NoDocument,
                   ![w].pc = AfterUpdate(h[w])]
        /\ UNCHANGED <<queue, events>>
  /\ UNCHANGED <<pending, upload, processed, parsed, extractor>>

\* mutant of UpdateSave: a failed save is logged and the handler goes on
UpdateSaveErrorSwallowed(w) ==
  /\ h[w].pc = "update_save"
  /\ \/ /\ CanHappen
        /\ events' = events + 1
        /\ h' = [h EXCEPT ![w].entity = NoDocument, ![w].pc = AfterUpdate(h[w])]
        /\ UNCHANGED <<store, history, queue>>
     \/ /\ store' = Save(store, h[w].documentId, h[w].entity)
        /\ history' = Saved(history, h[w].documentId, h[w].entity, h[w].dto)
        /\ h' = [Disturb(h, w, h[w].documentId) EXCEPT
                   ![w].writes = Append(@, h[w].dto),
                   ![w].entity = NoDocument,
                   ![w].pc = AfterUpdate(h[w])]
        /\ UNCHANGED <<queue, events>>
  /\ UNCHANGED <<pending, upload, processed, parsed, extractor>>

\* mutant of UpdateSave: the save lands and the call throws all the same
UpdateSaveThenThrow(w) ==
  /\ h[w].pc = "update_save"
  /\ \/ /\ CanHappen
        /\ events' = events + 1
        /\ store' = Save(store, h[w].documentId, h[w].entity)
        /\ history' = Saved(history, h[w].documentId, h[w].entity, h[w].dto)
        /\ h' = [Disturb(h, w, h[w].documentId) EXCEPT
                   ![w] = Catch([h[w] EXCEPT !.writes = Append(@, h[w].dto)],
                                "infrastructure")]
        /\ queue' = Settle(queue, h'[w])
     \/ /\ store' = Save(store, h[w].documentId, h[w].entity)
        /\ history' = Saved(history, h[w].documentId, h[w].entity, h[w].dto)
        /\ h' = [Disturb(h, w, h[w].documentId) EXCEPT
                   ![w].writes = Append(@, h[w].dto),
                   ![w].entity = NoDocument,
                   ![w].pc = AfterUpdate(h[w])]
        /\ UNCHANGED <<queue, events>>
  /\ UNCHANGED <<pending, upload, processed, parsed, extractor>>

\* update(): return await this.documentRepository.save(document)
UpdateSave(w) ==
  /\ h[w].pc = "update_save"
  /\ \/ /\ CanHappen
        /\ events' = events + 1
        /\ Throw(w, "infrastructure")
        /\ UNCHANGED <<store, history>>
     \/ /\ store' = Save(store, h[w].documentId, h[w].entity)
        /\ history' = Saved(history, h[w].documentId, h[w].entity, h[w].dto)
        /\ h' = [Disturb(h, w, h[w].documentId) EXCEPT
                   ![w].writes = Append(@, h[w].dto),
                   ![w].entity = NoDocument,
                   ![w].pc = AfterUpdate(h[w])]
        /\ UNCHANGED <<queue, events>>
  /\ UNCHANGED <<pending, upload, processed, parsed, extractor>>

\* mutant of SimulateOCR: a failed extraction is not retried, the message is
\* acknowledged
SimulateOCRFailAck(w) ==
  /\ h[w].pc = "ocr"
  /\ \/ /\ CanHappen
        /\ events' = events + 1
        /\ h' = [h EXCEPT ![w] = CatchAck([h[w] EXCEPT !.ocrCalls = @ + 1],
                                          "extraction")]
        /\ queue' = Settle(queue, h'[w])
     \/ /\ h' = [h EXCEPT ![w].ocrResult = Some(extractor),
                          ![w].ocrCalls = @ + 1,
                          ![w].dto = OcrDto(extractor),
                          ![w].pc = "update_find"]
        /\ UNCHANGED <<queue, events>>
  /\ UNCHANGED <<store, pending, upload, processed, history, parsed, extractor>>

\* const ocrResult = await this.documentsService.simulateOCR(): the awaited call
\* resolves with the extractor's result, or rejects (the stub resolves always; an
\* extractor that does the work may reject) and the catch block takes over
SimulateOCR(w) ==
  /\ h[w].pc = "ocr"
  /\ \/ /\ CanHappen
        /\ events' = events + 1
        /\ h' = [h EXCEPT ![w] = Catch([h[w] EXCEPT !.ocrCalls = @ + 1],
                                       "extraction")]
        /\ queue' = Settle(queue, h'[w])
     \/ /\ h' = [h EXCEPT ![w].ocrResult = Some(extractor),
                          ![w].ocrCalls = @ + 1,
                          ![w].dto = OcrDto(extractor),
                          ![w].pc = "update_find"]
        /\ UNCHANGED <<queue, events>>
  /\ UNCHANGED <<store, pending, upload, processed, history, parsed, extractor>>

\* mutant of EmitAndAck: the validation event is emitted twice
EmitTwiceAndAck(w) ==
  /\ h[w].pc = "finish"
  /\ h[w].pattern = DOCUMENT_PROCESSING
  /\ pending' = Enqueue(Enqueue(pending,
                   PubKey(DOCUMENT_VALIDATION, h[w].documentId, w)),
                   PubKey(DOCUMENT_VALIDATION, h[w].documentId, w))
  /\ h' = [h EXCEPT ![w] = [Ack(h[w]) EXCEPT !.emitted = @ + 2]]
  /\ processed' = [processed EXCEPT ![h[w].documentId] = Left(store, h[w])]
  /\ history' = Acked(history, h[w])
  /\ UNCHANGED <<store, queue, upload, events, parsed, extractor>>

\* handleProcessing: emitValidationEvent(documentId); channel.ack(originalMsg)
EmitAndAck(w) ==
  /\ h[w].pc = "finish"
  /\ h[w].pattern = DOCUMENT_PROCESSING
  /\ pending' = Enqueue(pending, PubKey(DOCUMENT_VALIDATION, h[w].documentId, w))
  /\ h' = [h EXCEPT ![w] = [Ack(h[w]) EXCEPT !.emitted = @ + 1]]
  /\ processed' = [processed EXCEPT ![h[w].documentId] = Left(store, h[w])]
  /\ history' = Acked(history, h[w])
  /\ UNCHANGED <<store, queue, upload, events, parsed, extractor>>

\* handleValidation: channel.ack(originalMsg)
ValidationAck(w) ==
  /\ h[w].pc = "finish"
  /\ h[w].pattern = DOCUMENT_VALIDATION
  /\ h' = [h EXCEPT ![w] = Ack(h[w])]
  /\ history' = Acked(history, h[w])
  /\ UNCHANGED <<store, queue, pending, upload, events, processed, parsed, extractor>>

Next ==
  \/ \E file \in Files : UploadFile(file)
  \/ \E k \in PubKeys : PublishComplete(k)
  \/ \E k \in PubKeys : PublishFail(k)
  \/ \E d \in Docs : Republish(d)
  \/ \E d \in Docs : Remove(d)
  \/ \E w \in Workers : Redeliver(w)
  \/ \E w \in Workers, m \in Msgs : Deliver(w, m)
  \/ \E w \in Workers : Lookup(w)
  \/ \E w \in Workers : UpdateFind(w)
  \/ \E w \in Workers : UpdateSave(w)
  \/ \E w \in Workers : SimulateOCR(w)
  \/ \E w \in Workers : EmitAndAck(w)
  \/ \E w \in Workers : ValidationAck(w)

Spec == Init /\ [][Next]_vars

\* OCRResultSchema.safeParse({ text, confidence, language })
SafeParse ==
  /\ ~parsed.done
  /\ LET issues == Issues(parsed.text, parsed.confidence, parsed.language) IN
       parsed' = [parsed EXCEPT !.done = TRUE,
                                !.success = (Len(issues) = 0),
                                !.issues = issues]
  /\ UNCHANGED <<store, queue, pending, h, upload, events, processed, history,
                 extractor>>

ValidatorSpec == ValidatorInit /\ [][SafeParse]_vars

\* the pipeline run with an extractor that may return any OCRResult
ExtractionSpec == ExtractionInit /\ [][Next]_vars

\* a step of the handler invocation consumer w runs: an async function whose
\* awaited calls all return or throw
HandlerStep(w) ==
  \/ Lookup(w)
  \/ UpdateFind(w)
  \/ UpdateSave(w)
  \/ SimulateOCR(w)
  \/ EmitAndAck(w)
  \/ ValidationAck(w)

\* the broker keeps delivering to a consumer that holds no unsettled message,
\* and a running handler keeps going
FairSpec ==
  /\ Spec
  /\ \A w \in Workers :
       /\ WF_vars(HandlerStep(w))
       /\ WF_vars(\E m \in Msgs : Deliver(w, m))

\* the pipeline at the moment a redelivered copy of a processing event comes
\* into play: document 1 uploaded and its event published and delivered to a
\* consumer, whose channel then died, so that the broker queued the message
\* again while the handler runs on; events from here on are counted from zero
RedeliveredInit ==
  \E w \in Workers :
    LET m == Msg(DOCUMENT_PROCESSING, 1) IN
    /\ store = [d \in {1} |-> NewDocument]
    /\ queue = [x \in Msgs |-> IF x = m THEN 1 ELSE 0]
    /\ pending = [k \in PubKeys |-> 0]
    /\ h = [v \in Workers |->
              IF v = w THEN [StartHandler(m, Some(NewDocument), Null)
                               EXCEPT !.lost = TRUE]
              ELSE IdleHandler]
    /\ upload = [created |-> 1, result |-> "created", calls |-> 1,
                 file |-> Some([mimetype |-> "application/pdf", size |-> 1024])]
    /\ events = 0
    /\ processed = [d \in Docs |-> Null]
    /\ history = [d \in Docs |->
                    [statuses |-> {UPLOADED}, ocr |-> FALSE, fresh |-> FALSE,
                     removed |-> FALSE,
                     removeCalls |-> 0, removeThrew |-> "none",
                     unpublished |-> FALSE, acked |-> {}]]
    /\ parsed = NoParse
    /\ extractor = simulateOCR

\* Next once every document id has been handed out: no further upload
RedeliveredNext ==
  \/ \E k \in PubKeys : PublishComplete(k)
  \/ \E k \in PubKeys : PublishFail(k)
  \/ \E d \in Docs : Republish(d)
  \/ \E d \in Docs : Remove(d)
  \/ \E w \in Workers : Redeliver(w)
  \/ \E w \in Workers, m \in Msgs : Deliver(w, m)
  \/ \E w \in Workers : Lookup(w)
  \/ \E w \in Workers : UpdateFind(w)
  \/ \E w \in Workers : UpdateSave(w)
  \/ \E w \in Workers : SimulateOCR(w)
  \/ \E w \in Workers : EmitAndAck(w)
  \/ \E w \in Workers : ValidationAck(w)

RedeliveredSpec == RedeliveredInit /\ [][RedeliveredNext]_vars

\* FairSpec with a broker connection that works: a publish that has been
\* started reaches the queue unless it fails
LiveSpec ==
  /\ FairSpec
  /\ \A k \in PubKeys : WF_vars(PublishComplete(k))

(* ============================ properties =============================== *)
StatusOf(row) == IF row = Null THEN "absent" ELSE row[1].status

\* consumer w's invocation is over
Over(w) == h[w].pc = "done"

\* consumer w's invocation ran to its end without an exception
Completed(w) == Over(w) /\ h[w].error = "none"

\* the row of the invocation's document, when nobody else wrote it meanwhile
Undisturbed(w) == ~h[w].dirty

\* t occurs in s
Contains(s, t) ==
  \E i \in 1 .. (Len(s) - Len(t) + 1) : SubSeq(s, i, i + Len(t) - 1) = t

\* s begins with t
StartsWith(s, t) == Len(s) >= Len(t) /\ SubSeq(s, 1, Len(t)) = t

(* C1: in both handlers a message for an existing record is acknowledged   *)
(* only after every status write of that delivery has been committed: an   *)
(* acked processing delivery has committed the PROCESSING write and the    *)
(* extraction-results write, an acked validation delivery its one write.   *)
C1_AckAfterWrites ==
  \A w \in Workers :
    (h[w].outcome = "ack" /\ h[w].lookup = "found") =>
      IF h[w].pattern = DOCUMENT_PROCESSING
        THEN /\ Len(h[w].writes) = 2
             /\ h[w].writes[1].status = PROCESSING
             /\ h[w].writes[2].status = VALIDATED
        ELSE /\ Len(h[w].writes) = 1
             /\ h[w].writes[1].status \in {VALIDATED, FAILED}

C1_Witness ==
  \E w \in Workers :
    /\ h[w].outcome = "ack"
    /\ h[w].lookup = "found"
    /\ h[w].pattern = DOCUMENT_VALIDATION

(* C2: handleProcessing acknowledges only after the validation event has   *)
(* actually been published: an acked processing delivery has no publish    *)
(* of its own still in flight.                                             *)
C2_AckAfterPublished ==
  \A w \in Workers :
    (h[w].pattern = DOCUMENT_PROCESSING /\ h[w].outcome = "ack") =>
      pending[PubKey(DOCUMENT_VALIDATION, h[w].documentId, w)] = 0

(* C3: a processing event handled without an exception for a record found *)
(* in status UPLOADED: PROCESSING is written before extraction is invoked, *)
(* the second write carries the extraction result and status VALIDATED,    *)
(* the row holds them at the end, exactly one validation event for the id  *)
(* is emitted and the message is acknowledged.                             *)
C3_ProcessingSuccess ==
  \A w \in Workers :
    /\ (h[w].pattern = DOCUMENT_PROCESSING /\ h[w].pc = "ocr") =>
         /\ h[w].ocrCalls = 0
         /\ Len(h[w].writes) = 1
         /\ h[w].writes[1] = [status |-> PROCESSING]
         /\ Undisturbed(w) => StatusOf(Row(store, h[w].documentId)) = PROCESSING
    /\ (/\ h[w].pattern = DOCUMENT_PROCESSING
        /\ Completed(w)
        /\ h[w].document.status = UPLOADED) =>
         /\ h[w].outcome = "ack"
         /\ h[w].ocrCalls = 1
         /\ h[w].emitted = 1
         /\ Len(h[w].writes) = 2
         /\ h[w].writes[1] = [status |-> PROCESSING]
         /\ Undisturbed(w) =>
              /\ h[w].documentId \in DOMAIN store
              /\ LET row == store[h[w].documentId]
                     ocr == h[w].ocrResult[1] IN
                 /\ row.status = VALIDATED
                 /\ row.ocr_text = Some(ocr.text)
                 /\ row.ocr_confidence = Some(ocr.confidence)
                 /\ row.ocr_language = Some(ocr.language)
                 /\ row.ocr_text # Null
                 /\ row.ocr_confidence # Null
                 /\ row.ocr_language # Null

C3_Witness ==
  \E w \in Workers :
    /\ h[w].pattern = DOCUMENT_PROCESSING
    /\ Completed(w)
    /\ h[w].document.status = UPLOADED
    /\ Undisturbed(w)

(* C4: a message whose document id has no row is acknowledged, and the     *)
(* handler writes nothing, extracts nothing and publishes nothing.         *)
C4_NotFoundAcked ==
  \A w \in Workers :
    (Over(w) /\ h[w].lookup = "notfound") =>
      /\ h[w].outcome = "ack"
      /\ h[w].writes = <<>>
      /\ h[w].ocrCalls = 0
      /\ h[w].emitted = 0

(* C5: when the handler's findOne throws, the handler writes nothing,      *)
(* extracts nothing, publishes nothing, does not acknowledge and rejects   *)
(* the message with requeue = true.                                        *)
C5_LookupThrows ==
  \A w \in Workers :
    h[w].errorAt = "lookup" =>
      /\ h[w].writes = <<>>
      /\ h[w].ocrCalls = 0
      /\ h[w].emitted = 0
      /\ h[w].outcome = "nack"
      /\ h[w].requeue = TRUE

C5_Witness ==
  \E w \in Workers :
    /\ h[w].errorAt = "lookup"
    /\ h[w].error = "infrastructure"
    /\ queue[Msg(h[w].pattern, h[w].documentId)] > 0

(* C6 as stated: after an infrastructure error in a store call of either   *)
(* handler the message is rejected with requeue and the record's status is *)
(* what it was before the handler ran.                                     *)
C6_StatusUnchanged ==
  \A w \in Workers :
    (h[w].error = "infrastructure" /\ Undisturbed(w)) =>
      /\ h[w].outcome = "nack"
      /\ h[w].requeue = TRUE
      /\ StatusOf(Row(store, h[w].documentId)) = StatusOf(h[w].before)

(* C6 amended: after an infrastructure error in a store call the message   *)
(* is rejected with requeue; handleValidation has written nothing and the  *)
(* status is unchanged; handleProcessing has written nothing, or only the  *)
(* PROCESSING write when the error came after it, and then the status is   *)
(* PROCESSING.                                                             *)
C6_StatusUnchangedOrProcessing ==
  \A w \in Workers :
    h[w].error = "infrastructure" =>
      /\ h[w].outcome = "nack"
      /\ h[w].requeue = TRUE
      /\ \/ h[w].writes = <<>>
         \/ /\ h[w].pattern = DOCUMENT_PROCESSING
            /\ h[w].errorAt # "lookup"
            /\ h[w].writes = <<[status |-> PROCESSING]>>
      /\ Undisturbed(w) =>
           StatusOf(Row(store, h[w].documentId)) =
             IF h[w].writes = <<>> THEN StatusOf(h[w].before) ELSE PROCESSING

C6_Witness ==
  \E w \in Workers :
    /\ h[w].error = "infrastructure"
    /\ h[w].pattern = DOCUMENT_PROCESSING
    /\ h[w].writes # <<>>
    /\ Undisturbed(w)
    /\ StatusOf(h[w].before) = UPLOADED

(* C7: a validation event for a record whose extraction fields pass the    *)
(* validator: the handler persists status VALIDATED together with          *)
(* validationErrors null, and then acknowledges.                           *)
C7_ValidationPass ==
  \A w \in Workers :
    (/\ h[w].pattern = DOCUMENT_VALIDATION
     /\ h[w].lookup = "found"
     /\ h[w].document.ocr_text # Null
     /\ h[w].document.ocr_confidence # Null
     /\ h[w].document.ocr_language # Null) =>
      /\ (h[w].pc = "finish") =>
           /\ h[w].outcome = "none"
           /\ h[w].writes = <<[status |-> VALIDATED, validation_errors |-> Null]>>
      /\ Completed(w) =>
           /\ h[w].outcome = "ack"
           /\ h[w].writes = <<[status |-> VALIDATED, validation_errors |-> Null]>>
           /\ Undisturbed(w) =>
                /\ h[w].documentId \in DOMAIN store
                /\ store[h[w].documentId].status = VALIDATED
                /\ store[h[w].documentId].validation_errors = Null

C7_Witness ==
  \E w \in Workers :
    /\ h[w].pattern = DOCUMENT_VALIDATION
    /\ h[w].document.ocr_text # Null
    /\ Completed(w)
    /\ Undisturbed(w)

(* C8: a validation event for a record whose extractedText is null: the    *)
(* handler persists status FAILED with a non-null validationErrors that    *)
(* contains the validator's message for the text field (the first of the   *)
(* joined messages), and acknowledges.                                     *)
C8_ValidationFail ==
  \A w \in Workers :
    (/\ h[w].pattern = DOCUMENT_VALIDATION
     /\ h[w].lookup = "found"
     /\ h[w].document.ocr_text = Null
     /\ Completed(w)) =>
      /\ h[w].outcome = "ack"
      /\ Len(h[w].writes) = 1
      /\ h[w].writes[1].status = FAILED
      /\ h[w].writes[1].validation_errors # Null
      /\ Contains(h[w].writes[1].validation_errors[1],
                  "Expected string, received null")
      /\ StartsWith(h[w].writes[1].validation_errors[1],
                    "Expected string, received null")
      /\ Undisturbed(w) =>
           /\ h[w].documentId \in DOMAIN store
           /\ store[h[w].documentId].status = FAILED
           /\ store[h[w].documentId].validation_errors =
                h[w].writes[1].validation_errors

C8_Witness ==
  \E w \in Workers :
    /\ h[w].pattern = DOCUMENT_VALIDATION
    /\ h[w].lookup = "found"
    /\ h[w].document.ocr_text = Null
    /\ Completed(w)
    /\ Undisturbed(w)

(* C9: a processing event handled again, completely, on the row a complete *)
(* earlier handling left: the row at the end equals that row, and exactly  *)
(* one more validation event for the id is emitted.                        *)
C9_RedeliveryIdempotent ==
  \A w \in Workers :
    (/\ h[w].pattern = DOCUMENT_PROCESSING
     /\ h[w].again
     /\ Completed(w)) =>
      /\ h[w].outcome = "ack"
      /\ h[w].emitted = 1
      /\ Undisturbed(w) => Row(store, h[w].documentId) = h[w].before

C9_Witness ==
  \E w \in Workers :
    /\ h[w].pattern = DOCUMENT_PROCESSING
    /\ h[w].again
    /\ Completed(w)
    /\ Undisturbed(w)

(* C10: for every record, validationErrors is non-null if and only if the  *)
(* status is FAILED.                                                       *)
C10_ErrorsIffFailed ==
  \A d \in DOMAIN store :
    (store[d].validation_errors # Null) <=> (store[d].status = FAILED)

(* C11: in every step, a record whose status is VALIDATED does not change   *)
(* to PROCESSING or back to UPLOADED, whatever the deliveries and            *)
(* redeliveries of processing and validation events.                         *)
C11_ValidatedNeverRegresses ==
  [][\A d \in Docs :
       (/\ d \in DOMAIN store
        /\ d \in DOMAIN store'
        /\ store[d].status = VALIDATED) =>
         store'[d].status \notin {PROCESSING, UPLOADED}]_vars

ValidationEventExists(d) ==
  \/ queue[Msg(DOCUMENT_VALIDATION, d)] > 0
  \/ \E by \in Publishers : pending[PubKey(DOCUMENT_VALIDATION, d, by)] > 0
  \/ \E w \in Workers :
       /\ h[w].pattern = DOCUMENT_VALIDATION
       /\ h[w].documentId = d
       /\ h[w].pc # "idle"

(* C13: a validation event for an id is emitted only after the processing   *)
(* handler's write of the extraction results with status VALIDATED has been  *)
(* saved: a handler that has emitted has that write behind it, and no        *)
(* validation event exists for an id whose extraction results were never     *)
(* saved.                                                                    *)
C13_ValidationAfterPersist ==
  /\ \A w \in Workers :
       h[w].emitted > 0 =>
         /\ Len(h[w].writes) = 2
         /\ h[w].writes[2] = OcrDto(h[w].ocrResult[1])
         /\ h[w].writes[2].status = VALIDATED
         /\ history[h[w].documentId].ocr
  /\ \A d \in Docs : ValidationEventExists(d) => history[d].ocr

C13_Witness ==
  \E d \in Docs :
    /\ queue[Msg(DOCUMENT_VALIDATION, d)] > 0
    /\ history[d].ocr

\* message m is neither in the queue nor in the hands of a consumer
Gone(m) ==
  /\ queue[m] = 0
  /\ \A w \in Workers :
       ~(/\ h[w].pattern = m.pattern
         /\ h[w].documentId = m.documentId
         /\ h[w].pc \notin {"idle", "done"})

(* C14: a processing or validation message whose document has no row does   *)
(* not loop: with the broker delivering and the handlers running, from some  *)
(* point on the message of a missing document is out of the queue and out of *)
(* every consumer's hands for good.                                          *)
C14_OrphanEventuallyGone ==
  \A m \in Msgs : <>[](m.documentId \notin DOMAIN store => Gone(m))

\* the fields of a validator input that break the constraints: text non-empty,
\* confidence a number in [0, 1], language non-empty
ViolatedFields(text, confidence, language) ==
  (IF text = Null \/ text = Some("") THEN {"text"} ELSE {})
  \cup (IF confidence = Null THEN {"confidence"}
        ELSE IF confidence[1] < 0 \/ confidence[1] > 100 THEN {"confidence"}
        ELSE {})
  \cup (IF language = Null \/ language = Some("") THEN {"language"} ELSE {})

(* C15: the validator fails every input whose text is null or empty, whose  *)
(* confidence is null, negative or above 1, or whose language is null or    *)
(* empty, and its error list has one entry for each violated field.         *)
C15_ValidatorRejects ==
  parsed.done =>
    LET bad == ViolatedFields(parsed.text, parsed.confidence, parsed.language) IN
      bad # {} =>
        /\ ~parsed.success
        /\ Len(parsed.issues) = Cardinality(bad)
        /\ {parsed.issues[i].path : i \in 1 .. Len(parsed.issues)} = bad

(* C16: the validator passes every input whose text is a non-empty string,  *)
(* whose confidence is a number in [0, 1], bounds included, and whose        *)
(* language is a non-empty string.                                           *)
C16_ValidatorAccepts ==
  parsed.done =>
    (ViolatedFields(parsed.text, parsed.confidence, parsed.language) = {} =>
       /\ parsed.success
       /\ parsed.issues = <<>>)

C16_Witness ==
  /\ parsed.done
  /\ parsed.success
  /\ parsed.text = Some("Invoice #123")
  /\ parsed.confidence = Some(100)
  /\ parsed.language = Some("en")

(* C17: every handler invocation ends with exactly one queue decision: a    *)
(* running invocation has settled nothing, a finished one has acked or      *)
(* nacked exactly once, and every exception raised inside the handler ends  *)
(* it with a reject-and-requeue, never with an ack and never with nothing.  *)
C17_OneQueueDecision ==
  \A w \in Workers :
    /\ h[w].pc \notin {"idle", "done"} =>
         /\ h[w].decisions = 0
         /\ h[w].outcome = "none"
    /\ Over(w) =>
         /\ h[w].decisions = 1
         /\ h[w].outcome \in {"ack", "nack"}
         /\ h[w].error # "none" => (h[w].outcome = "nack" /\ h[w].requeue)
         /\ h[w].error = "none" => h[w].outcome = "ack"

C17_Witness ==
  \E w \in Workers :
    /\ Over(w)
    /\ h[w].error = "NotFoundException"
    /\ h[w].errorAt = "update_find"
    /\ h[w].outcome = "nack"

(* C18: update(id, partialFields) is atomic: in the step in which a call's  *)
(* save lands, the fields of the row that its dto does not name keep the    *)
(* values they have, so that two racing calls leave what a serial order     *)
(* leaves and no call puts back a value it read before the other's write.   *)
C18_UpdateAtomic ==
  [][\A w \in Workers :
       (/\ Len(h'[w].writes) = Len(h[w].writes) + 1
        /\ h[w].documentId \in DOMAIN store) =>
         \A f \in DOMAIN NewDocument \ DOMAIN h[w].dto :
           store'[h[w].documentId][f] = store[h[w].documentId][f]]_vars

C20_ValidatedClearsErrors ==
  [][\A w \in Workers :
       (/\ Len(h'[w].writes) = Len(h[w].writes) + 1
        /\ h[w].dto.status = VALIDATED) =>
         store'[h[w].documentId].validation_errors = Null]_vars

(* C21: FAILED is terminal: in every step, a record in status FAILED for   *)
(* which no fresh processing event was published from outside keeps status  *)
(* FAILED (as long as it has a row), whatever events the pipeline itself    *)
(* published are delivered again or twice.                                  *)
C21_FailedTerminal ==
  [][\A d \in Docs :
       (/\ d \in DOMAIN store
        /\ d \in DOMAIN store'
        /\ store[d].status = FAILED
        /\ ~history'[d].fresh) =>
         store'[d].status = FAILED]_vars

\* a processing event for id d exists: in flight to the broker, in the queue,
\* or in the hands of a consumer
ProcessingEventExists(d) ==
  \/ queue[Msg(DOCUMENT_PROCESSING, d)] > 0
  \/ \E by \in Publishers : pending[PubKey(DOCUMENT_PROCESSING, d, by)] > 0
  \/ \E w \in Workers :
       /\ h[w].pattern = DOCUMENT_PROCESSING
       /\ h[w].documentId = d
       /\ h[w].pc # "idle"

(* C22: an accepted uploadFile saves a new row with status UPLOADED and, in *)
(* the same call, emits exactly one processing event with the new id; a     *)
(* processing event exists only for an id whose row has been saved, and a   *)
(* handler that finds no row handles an id whose row was saved and has      *)
(* been removed since.                                                      *)
C22_UploadPersistsThenPublishes ==
  [][/\ upload'.created # upload.created =>
          LET id == upload'.created IN
            /\ id \notin DOMAIN store
            /\ id \in DOMAIN store'
            /\ store'[id] = NewDocument
            /\ store'[id].status = UPLOADED
            /\ upload'.result = "created"
            /\ pending' = Enqueue(pending, PubKey(DOCUMENT_PROCESSING, id, "client"))
            /\ queue' = queue
     /\ \A d \in Docs : ProcessingEventExists(d)' => history'[d].statuses # {}
     /\ \A w \in Workers :
          h'[w].lookup = "notfound" =>
            /\ history'[h'[w].documentId].statuses # {}
            /\ history'[h'[w].documentId].removed]_vars

C22_Witness ==
  /\ upload.result = "created"
  /\ upload.created \in DOMAIN store
  /\ store[upload.created] = NewDocument
  /\ pending[PubKey(DOCUMENT_PROCESSING, upload.created, "client")] = 1

(* C23: uploadFile called with no file, with a file whose MIME type is not *)
(* allowed, or with a file larger than MAX_FILE_SIZE ends with              *)
(* BadRequestException, saves no row and emits no processing event.         *)
C23_UploadRejects ==
  [][upload'.calls = upload.calls + 1 =>
       LET file == upload'.file IN
         (\/ file = Null
          \/ file[1].mimetype \notin ALLOWED_MIME_TYPES
          \/ file[1].size > MAX_FILE_SIZE) =>
           /\ upload'.result = "bad_request"
           /\ upload'.created = upload.created
           /\ store' = store
           /\ pending' = pending
           /\ queue' = queue]_vars

C23_Witness ==
  /\ upload.result = "bad_request"
  /\ upload.file # Null
  /\ upload.file[1].mimetype \in ALLOWED_MIME_TYPES
  /\ upload.file[1].size > MAX_FILE_SIZE
  /\ store = <<>>

(* C24: when handleValidation ends with an exception (its lookup, or the   *)
(* findOne or the save of its update throws), the message is rejected with  *)
(* requeue and not acknowledged, the handler has written nothing, and the   *)
(* row is exactly what it was before the handler ran.                       *)
C24_ValidationFailureLeavesRow ==
  \A w \in Workers :
    (h[w].pattern = DOCUMENT_VALIDATION /\ h[w].error # "none") =>
      /\ h[w].outcome = "nack"
      /\ h[w].requeue
      /\ h[w].decisions = 1
      /\ h[w].writes = <<>>
      /\ Undisturbed(w) => Row(store, h[w].documentId) = h[w].before

C24_Witness ==
  \E w \in Workers :
    /\ h[w].pattern = DOCUMENT_VALIDATION
    /\ h[w].error = "infrastructure"
    /\ h[w].errorAt = "update_save"
    /\ Undisturbed(w)
    /\ queue[Msg(DOCUMENT_VALIDATION, h[w].documentId)] > 0

\* the three extraction fields of a row (an option)
OcrOf(row) ==
  IF row = Null THEN Null
  ELSE <<row[1].ocr_text, row[1].ocr_confidence, row[1].ocr_language>>

(* C25: when the extraction call fails inside handleProcessing, the message *)
(* is rejected with requeue and not acknowledged, the handler has written   *)
(* only the PROCESSING status, no extraction field, and it has emitted no   *)
(* validation event.                                                        *)
C25_ExtractionFailureRetried ==
  \A w \in Workers :
    h[w].error = "extraction" =>
      /\ h[w].pattern = DOCUMENT_PROCESSING
      /\ h[w].outcome = "nack"
      /\ h[w].requeue
      /\ h[w].decisions = 1
      /\ h[w].writes = <<[status |-> PROCESSING]>>
      /\ h[w].ocrResult = Null
      /\ h[w].emitted = 0
      /\ pending[PubKey(DOCUMENT_VALIDATION, h[w].documentId, w)] = 0
      /\ Undisturbed(w) =>
           OcrOf(Row(store, h[w].documentId)) = OcrOf(h[w].before)

C25_Witness ==
  \E w \in Workers :
    /\ h[w].error = "extraction"
    /\ Undisturbed(w)
    /\ queue[Msg(DOCUMENT_PROCESSING, h[w].documentId)] > 0
    /\ StatusOf(Row(store, h[w].documentId)) = PROCESSING

C27_HandlersNeverDelete ==
  [][\A d \in DOMAIN store :
       d \notin DOMAIN store' =>
         /\ \A w \in Workers :
              /\ h'[w].pc = h[w].pc
              /\ h'[w].writes = h[w].writes
              /\ h'[w].outcome = h[w].outcome
         /\ history'[d].removed]_vars

C27_Witness ==
  \E w \in Workers :
    /\ Completed(w)
    /\ h[w].dirty
    /\ Len(h[w].writes) = 2
    /\ h[w].documentId \notin DOMAIN store
    /\ history[h[w].documentId].removed

(* C28: findOne, update and remove called for an id that has no row fail   *)
(* with NotFoundException and leave the store as it was: a handler whose    *)
(* findOne, or whose update, meets a missing row (and no infrastructure     *)
(* error) takes the exception, and a remove of a missing id throws it; in   *)
(* each case the step changes no row.                                       *)
C28_MissingIdNotFound ==
  [][/\ \A w \in Workers :
          /\ h[w].pc \in {"lookup", "update_find"}
          /\ h[w].documentId \notin DOMAIN store
          /\ h'[w].pc # h[w].pc
          /\ h'[w].error # "infrastructure"
          => /\ h'[w].error = "NotFoundException"
             /\ h'[w].errorAt = h[w].pc
             /\ h'[w].writes = h[w].writes
             /\ store' = store
     /\ \A d \in Docs :
          /\ history'[d].removeCalls # history[d].removeCalls
          /\ d \notin DOMAIN store
          => /\ history'[d].removeThrew = "NotFoundException"
             /\ store' = store]_vars

\* findOne of a handler met a missing row
C28_WitnessFindOne ==
  \E w \in Workers :
    /\ h[w].error = "NotFoundException"
    /\ h[w].errorAt = "lookup"
    /\ h[w].documentId \notin DOMAIN store

\* update of a handler met a missing row
C28_WitnessUpdate ==
  \E w \in Workers :
    /\ h[w].error = "NotFoundException"
    /\ h[w].errorAt = "update_find"
    /\ h[w].documentId \notin DOMAIN store

\* remove met a missing id
C28_Witness ==
  \E d \in Docs :
    /\ history[d].removeThrew = "NotFoundException"
    /\ d \notin DOMAIN store

(* C29: redelivery of a processing event after attempts that failed        *)
(* part-way is safe. An attempt that failed has written nothing but the     *)
(* PROCESSING status and emitted no validation event; a complete handling   *)
(* that found the row in PROCESSING, where such an attempt left it, emits   *)
(* exactly one validation event and leaves the row one single successful    *)
(* handling produces: status VALIDATED, the extraction result, every other  *)
(* field as the failed attempt found it.                                    *)
C29_RetryAfterPartialFailure ==
  \A w \in Workers :
    /\ (/\ h[w].pattern = DOCUMENT_PROCESSING
        /\ Over(w)
        /\ h[w].error # "none") =>
         /\ h[w].emitted = 0
         /\ h[w].outcome # "ack"
         /\ \A i \in 1..Len(h[w].writes) : h[w].writes[i] = [status |-> PROCESSING]
    /\ (/\ h[w].pattern = DOCUMENT_PROCESSING
        /\ Completed(w)
        /\ StatusOf(h[w].before) = PROCESSING) =>
         /\ h[w].emitted = 1
         /\ h[w].ocrCalls = 1
         /\ Undisturbed(w) =>
              Row(store, h[w].documentId) =
                Some([status |-> VALIDATED,
                      ocr_text |-> Some(simulateOCR.text),
                      ocr_confidence |-> Some(simulateOCR.confidence),
                      ocr_language |-> Some(simulateOCR.language),
                      validation_errors |-> h[w].before[1].validation_errors])

\* one consumer's attempt failed after the PROCESSING write and was requeued;
\* the other handled the redelivery to the end
C29_Witness ==
  \E w, v \in Workers :
    /\ w # v
    /\ h[v].pattern = DOCUMENT_PROCESSING
    /\ h[v].error \in {"extraction", "infrastructure"}
    /\ h[v].requeue
    /\ h[v].writes = <<[status |-> PROCESSING]>>
    /\ h[w].pattern = DOCUMENT_PROCESSING
    /\ h[w].documentId = h[v].documentId
    /\ Completed(w)
    /\ Undisturbed(w)
    /\ StatusOf(h[w].before) = PROCESSING
    /\ OcrOf(h[w].before) = OcrOf(Some(NewDocument))

Excused(d) == history[d].removed \/ history[d].unpublished

(* C31: with the broker delivering, publishes completing and handlers        *)
(* running, a row that uploadFile saved in status UPLOADED leads to a state  *)
(* where its status is VALIDATED or FAILED and to a state where both its     *)
(* processing and its validation message have been acknowledged, unless the  *)
(* row is removed or an emitted event is lost for good.                      *)
C31_UploadedReachesTerminal ==
  \A d \in Docs :
    /\ (StatusOf(Row(store, d)) = UPLOADED)
         ~> (Excused(d) \/ StatusOf(Row(store, d)) \in {VALIDATED, FAILED})
    /\ (StatusOf(Row(store, d)) = UPLOADED)
         ~> (Excused(d)
             \/ history[d].acked = {DOCUMENT_PROCESSING, DOCUMENT_VALIDATION})

\* a document went through after a failed attempt: terminal, both messages
\* acknowledged, nothing removed or lost
C31_Witness ==
  \E d \in Docs :
    /\ ~Excused(d)
    /\ events > 0
    /\ StatusOf(Row(store, d)) \in {VALIDATED, FAILED}
    /\ history[d].acked = {DOCUMENT_PROCESSING, DOCUMENT_VALIDATION}
    /\ \A m \in Msgs : queue[m] = 0
    /\ \A w \in Workers : h[w].pc \in {"idle", "done"}

\* no message of d is queued, on its way to the queue, or being handled
Quiescent(d) ==
  /\ \A m \in Msgs : m.documentId = d => queue[m] = 0
  /\ \A k \in PubKeys : k.documentId = d => pending[k] = 0
  /\ \A w \in Workers : h[w].documentId = d => h[w].pc \in {"idle", "done"}

(* C32: whenever no processing or validation message of a document is       *)
(* queued or being handled and its row exists, the row's status is not      *)
(* PROCESSING, also after a redelivered copy of the processing event was    *)
(* handled while the earlier delivery was still running.                    *)
C32_NoProcessingAtQuiescence ==
  \A d \in DOMAIN store :
    Quiescent(d) => store[d].status # PROCESSING

(* C33: when the update that writes PROCESSING fails in handleProcessing,   *)
(* the handler stops there: extraction is never invoked before that write   *)
(* has succeeded, and the failed invocation has made no write and no second *)
(* update, emitted no validation event, and rejected its message once with  *)
(* requeue, leaving the row as it found it.                                 *)
C33_ProcessingWriteFailureStops ==
  \A w \in Workers :
    h[w].pattern = DOCUMENT_PROCESSING =>
      /\ (h[w].ocrCalls > 0 \/ h[w].pc \in {"ocr", "finish"}) =>
           /\ Len(h[w].writes) >= 1
           /\ h[w].writes[1] = [status |-> PROCESSING]
      /\ (/\ Over(w)
          /\ h[w].errorAt \in {"update_find", "update_save"}
          /\ h[w].ocrCalls = 0) =>
           /\ h[w].writes = <<>>
           /\ h[w].ocrResult = Null
           /\ h[w].emitted = 0
           /\ pending[PubKey(DOCUMENT_VALIDATION, h[w].documentId, w)] = 0
           /\ h[w].outcome = "nack"
           /\ h[w].requeue
           /\ h[w].decisions = 1
           /\ Undisturbed(w) => Row(store, h[w].documentId) = h[w].before

\* the save of the PROCESSING status failed on a row that is there
C33_Witness ==
  \E w \in Workers :
    /\ h[w].pattern = DOCUMENT_PROCESSING
    /\ Over(w)
    /\ h[w].error = "infrastructure"
    /\ h[w].errorAt = "update_save"
    /\ h[w].ocrCalls = 0
    /\ Undisturbed(w)
    /\ StatusOf(Row(store, h[w].documentId)) = UPLOADED
    /\ queue[Msg(DOCUMENT_PROCESSING, h[w].documentId)] = 1

(* C34: on one consumer at most one message is in flight: in every step in *)
(* which a handler invocation starts on a consumer, that consumer was idle  *)
(* or its previous invocation had finished and had acked or nacked its      *)
(* message, exactly once.                                                   *)
C34_OneInFlightPerConsumer ==
  [][\A w \in Workers :
       (/\ \E m \in Msgs : queue'[m] < queue[m]
        /\ h'[w].pc = "lookup"
        /\ h'[w] # h[w]) =>
         /\ h[w].pc \in {"idle", "done"}
         /\ h[w].pc = "done" =>
              /\ h[w].decisions = 1
              /\ h[w].outcome \in {"ack", "nack"}]_vars

\* one consumer alone took the processing message, settled it, and has now
\* been handed the validation message
C34_Witness ==
  \E w \in Workers :
    /\ h[w].pattern = DOCUMENT_VALIDATION
    /\ h[w].pc = "lookup"
    /\ \A v \in Workers \ {w} : h[v].pc = "idle"

\* a validation message of d is on its way to the queue, queued, or being handled
ValidationInFlight(d) ==
  \/ queue[Msg(DOCUMENT_VALIDATION, d)] > 0
  \/ \E k \in PubKeys :
       k.pattern = DOCUMENT_VALIDATION /\ k.documentId = d /\ pending[k] > 0
  \/ \E w \in Workers :
       /\ h[w].pattern = DOCUMENT_VALIDATION
       /\ h[w].documentId = d
       /\ h[w].pc \notin {"idle", "done"}

(* C35: whenever a validation message of a document is queued or in flight  *)
(* and its row exists, having been written by the pipeline only (never      *)
(* removed, no event published from outside), the row's three extraction    *)
(* fields are all non-null, whatever the interleaving of duplicate          *)
(* deliveries of its processing event.                                      *)
C35_ExtractionKeptForValidation ==
  \A d \in DOMAIN store :
    (/\ ValidationInFlight(d)
     /\ ~history[d].removed
     /\ ~history[d].fresh) =>
      /\ store[d].ocr_text # Null
      /\ store[d].ocr_confidence # Null
      /\ store[d].ocr_language # Null

(* C36: handleValidation changes only status and validation_errors of the  *)
(* row named in its event: in every step of a validation invocation the     *)
(* three extraction fields of that row stay as they are, every other row    *)
(* stays as it is, no event is handed to the client, and the invocation     *)
(* never calls the extractor.                                               *)
C36_ValidationFrame ==
  [][\A w \in Workers :
       (/\ h[w].pattern = DOCUMENT_VALIDATION
        /\ h[w].pc \notin {"idle", "done"}
        /\ h'[w].pc # h[w].pc) =>
         /\ h'[w].ocrCalls = 0
         /\ h'[w].emitted = 0
         /\ \A k \in PubKeys : pending'[k] <= pending[k]
         /\ \A d \in DOMAIN store :
              /\ d \in DOMAIN store'
              /\ d # h[w].documentId => store'[d] = store[d]
              /\ d = h[w].documentId =>
                   OcrOf(Some(store'[d])) = OcrOf(Some(store[d]))]_vars

(* C37: handleValidation is idempotent under redelivery: a validation       *)
(* event handled again, to the end, on the row as an earlier handling of    *)
(* the event that ran to the end left it, with no other write in between or *)
(* meanwhile, makes the same write, leaves status and validation_errors     *)
(* (the whole row) unchanged, and acknowledges the message.                 *)
C37_ValidationIdempotent ==
  \A w, v \in Workers :
    (/\ w # v
     /\ h[v].pattern = DOCUMENT_VALIDATION
     /\ Completed(v)
     /\ Len(h[v].writes) = 1
     /\ h[w].pattern = DOCUMENT_VALIDATION
     /\ h[w].documentId = h[v].documentId
     /\ Completed(w)
     /\ h[w].before = Some(ObjectAssign(h[v].document, h[v].writes[1]))) =>
      /\ h[w].outcome = "ack"
      /\ h[w].decisions = 1
      /\ Undisturbed(w) =>
           /\ h[w].writes = h[v].writes
           /\ Row(store, h[w].documentId) = h[w].before

\* a validation event that failed the row was delivered again after the
\* consumer's channel died, and handled on the FAILED row
C37_Witness ==
  \E w, v \in Workers :
    /\ w # v
    /\ h[v].pattern = DOCUMENT_VALIDATION
    /\ Completed(v)
    /\ h[v].lost
    /\ Len(h[v].writes) = 1
    /\ h[w].pattern = DOCUMENT_VALIDATION
    /\ h[w].documentId = h[v].documentId
    /\ Completed(w)
    /\ Undisturbed(w)
    /\ h[w].before = Some(ObjectAssign(h[v].document, h[v].writes[1]))
    /\ StatusOf(h[w].before) = FAILED
    /\ StatusOf(Row(store, h[w].documentId)) = FAILED

(* C38: a call of uploadFile that ends with BadRequestException saves no   *)
(* row and emits no processing event; and every stored row in status        *)
(* UPLOADED has its processing event: on its way to the broker, queued or   *)
(* being handled, unless the event was emitted and lost before it reached   *)
(* the broker.                                                              *)
C38_FailedUploadLeavesNothing ==
  [][/\ (upload'.calls = upload.calls + 1 /\ upload'.result = "bad_request") =>
          /\ store' = store
          /\ upload'.created = upload.created
          /\ pending' = pending
          /\ queue' = queue
     /\ \A d \in DOMAIN store' :
          store'[d].status = UPLOADED =>
            \/ history'[d].unpublished
            \/ queue'[Msg(DOCUMENT_PROCESSING, d)] > 0
            \/ \E by \in Publishers :
                 pending'[PubKey(DOCUMENT_PROCESSING, d, by)] > 0
            \/ \E w \in Workers :
                 /\ h'[w].pattern = DOCUMENT_PROCESSING
                 /\ h'[w].documentId = d
                 /\ h'[w].pc \notin {"idle", "done"}]_vars

\* the save of an acceptable file failed: the call reported it, nothing stored
C38_Witness ==
  /\ upload.result = "bad_request"
  /\ upload.file # Null
  /\ upload.file[1].mimetype \in ALLOWED_MIME_TYPES
  /\ upload.file[1].size <= MAX_FILE_SIZE
  /\ store = <<>>
  /\ \A k \in PubKeys : pending[k] = 0
  /\ \A m \in Msgs : queue[m] = 0

(* C39: a row deleted by remove(id) is never brought back: once the id has *)
(* been removed and has no row, no step gives it a row again.               *)
C39_RemovedStaysRemoved ==
  [][\A d \in Docs :
       (history[d].removed /\ d \notin DOMAIN store) =>
         d \notin DOMAIN store']_vars

=============================================================================
